---- MODULE Spec2Model ----
(***************************************************************************)
(* Credential rotation manager (EnhancedAPIRotationManager) and the        *)
(* provider searches of RealSearchOrchestrator that drive it.              *)
(*                                                                         *)
(* Time is the wall clock in seconds; the manager is constructed at        *)
(* second 0.  Python indices are 0-based, TLA+ sequences 1-based: the      *)
(* credential at Python index i of a pool is pool[i + 1].                  *)
(***************************************************************************)
EXTENDS Integers, Sequences, FiniteSets, TLC

VARIABLES
    api_configs,      \* service -> sequence of keys (only configured services)
    current_indices,  \* service -> rotation cursor (Python index)
    error_counts,     \* service -> key -> consecutive error count
    last_used,        \* service -> key -> second of the last selection
    cooldown_periods, \* service -> key -> cooldown duration in seconds
    now,              \* datetime.now(), in seconds since construction
    last,             \* the most recent manager call: arguments and result
    failed_at,        \* service -> key -> second of the latest reported failure
    calls,            \* request -> position of its execute_comprehensive_search
    outcomes,         \* request -> what each provider call of its search did
    sailor,           \* the AlibabaWebSailor instance in use, its file, its call
    shadowed,         \* an instance of the first AlibabaWebSailor class, its call
    threads,          \* request -> its execute_massive_search in a thread of its own
    reporters,        \* request -> its report_error in a thread of its own
    route             \* one request to /execute_complete_analysis and its answer

mgr == <<api_configs, current_indices, error_counts, last_used, cooldown_periods>>
vars == <<api_configs, current_indices, error_counts, last_used, cooldown_periods,
          now, last, failed_at, calls, outcomes, sailor, shadowed, threads,
          reporters, route>>

\* What a client of the manager alone leaves untouched.
engine == <<calls, outcomes>>

\* The two content collectors, which no call of the manager touches.
collectors == <<sailor, shadowed>>

\* The request threads followed statement by statement, and the route that
\* starts them.
parallel == <<threads, reporters, route>>

----------------------------------------------------------------------------
(* Program constants *)

MaxConsecutiveErrors == 5
RateLimitCooldown == 300
QuotaCooldown == 3600
GenericCooldown == 60
InitialAge == 3600

(* Bounds of the model *)

MaxTick == 2
MaxErrors == 6
MaxFailures == 2
NumCalls == 2
MaxSaves == 4
MaxSessions == 2
MaxBuffer == 3
MaxThreadSaves == 2

----------------------------------------------------------------------------
(* Inputs *)

None == "None"
Services == {"exa", "tavily"}
ForeignKey == "kx"
ErrorTypes == {"rate_limit", "quota_exceeded", "generic"}

\* The environments the manager is constructed in: which services have keys.
\* _load_api_configs never stores an empty list, so an unconfigured service
\* is absent from api_configs.
Environments ==
    { [s \in {"exa"} |-> <<"e1", "e2">>],
      [s \in {"exa", "tavily"} |-> IF s = "exa" THEN <<"e1">> ELSE <<"t1">>] }

\* The instants at which calls are made: construction, the end of the shortest
\* and of the longest cooldown counted from construction, the end of the
\* middle one, then one generic cooldown apart.
TimeAt(i) ==
    CASE i = 0 -> 0
      [] i = 1 -> GenericCooldown
      [] i = 2 -> QuotaCooldown
      [] i = 3 -> RateLimitCooldown
      [] OTHER -> QuotaCooldown + (i - 3) * GenericCooldown

Instants == {TimeAt(i) : i \in 0..MaxTick}

----------------------------------------------------------------------------
(* Helpers *)

Range(f) == {f[x] : x \in DOMAIN f}
Configured(service) == service \in DOMAIN api_configs
PoolKeys(service) == IF Configured(service) THEN Range(api_configs[service]) ELSE {}
KeyAt(service, i) == api_configs[service][i + 1]
IndexOf(service, api_key) ==
    CHOOSE i \in 0..(Len(api_configs[service]) - 1) : KeyAt(service, i) = api_key

NoStatus == [status |-> "none", total_apis |-> -1, available_apis |-> -1, current_index |-> -1]

\* The record of a call.  flip tells two successive selections apart: every
\* other call leaves it at 0.
Call(op, service, api_key, error_type, ret, path, status) ==
    [op |-> op, service |-> service, api_key |-> api_key, error_type |-> error_type,
     ret |-> ret, path |-> path, status |-> status,
     flip |-> IF op = "get_next_api" THEN 1 - last.flip ELSE 0]

----------------------------------------------------------------------------
(* EnhancedAPIRotationManager *)

cooldown_for(error_type) ==
    IF error_type = "rate_limit" THEN RateLimitCooldown
    ELSE IF error_type = "quota_exceeded" THEN QuotaCooldown
    ELSE GenericCooldown

\* Mutant: the cooldown window is not consulted.
is_api_available_ignoring_cooldown(service, api_key) ==
    ~(error_counts[service][api_key] > MaxConsecutiveErrors)

\* Mutant: a key is still held back at the second its cooldown ends.
is_api_available_late(service, api_key) ==
    /\ ~((now - last_used[service][api_key]) <= cooldown_periods[service][api_key])
    /\ ~(error_counts[service][api_key] > MaxConsecutiveErrors)

is_api_available(service, api_key) ==
    /\ ~((now - last_used[service][api_key]) < cooldown_periods[service][api_key])
    /\ ~(error_counts[service][api_key] > MaxConsecutiveErrors)

\* The numbers of cursor advances after which the scan meets an available key.
scan_hits(service) ==
    LET n == Len(api_configs[service])
    IN {j \in 0..(n - 1) :
          is_api_available(service, KeyAt(service, (current_indices[service] + j) % n))}

scan_steps(service) == CHOOSE j \in scan_hits(service) : \A h \in scan_hits(service) : j <= h

\* Mutant: the fallback takes the key under the cursor.
best_api_at_cursor(service) == KeyAt(service, current_indices[service])

\* min(available_apis, key=last_used): the first key of the pool among the oldest.
best_api(service) ==
    LET n == Len(api_configs[service])
        oldest == {i \in 0..(n - 1) :
                     \A j \in 0..(n - 1) :
                        last_used[service][KeyAt(service, i)]
                          <= last_used[service][KeyAt(service, j)]}
    IN KeyAt(service, CHOOSE i \in oldest : \A j \in oldest : i <= j)

\* The key get_next_api returns for a configured service.
next_api(service) ==
    IF scan_hits(service) # {}
    THEN KeyAt(service,
               (current_indices[service] + scan_steps(service)) % Len(api_configs[service]))
    ELSE best_api(service)

\* Mutant: the cursor is advanced without the modulo.
next_index_unwrapped(service) ==
    IF scan_hits(service) # {}
    THEN current_indices[service] + scan_steps(service)
    ELSE current_indices[service] + Len(api_configs[service])

\* The cursor get_next_api leaves behind: it stops on the key it returns, and a
\* scan that finds nothing has advanced len(pool) times.
next_index(service) ==
    LET n == Len(api_configs[service])
    IN IF scan_hits(service) # {}
       THEN (current_indices[service] + scan_steps(service)) % n
       ELSE (current_indices[service] + n) % n

\* Mutant: a selection leaves the error count of the key as it is.
used_error_count_kept(service, api_key) == error_counts[service][api_key]

used_error_count(service, api_key) == 0

update_usage(service, api_key) ==
    /\ last_used' = [last_used EXCEPT ![service][api_key] = now]
    /\ error_counts' =
         [error_counts EXCEPT ![service][api_key] = used_error_count(service, api_key)]

get_next_api(service) ==
    IF ~Configured(service) \/ Len(api_configs[service]) = 0
    THEN /\ last' = Call("get_next_api", service, None, None, None, "none", NoStatus)
         /\ UNCHANGED <<mgr, now>>
    ELSE /\ current_indices' = [current_indices EXCEPT ![service] = next_index(service)]
         /\ update_usage(service, next_api(service))
         /\ last' = Call("get_next_api", service, None, None, next_api(service),
                         IF scan_hits(service) # {} THEN "scan" ELSE "fallback", NoStatus)
         /\ UNCHANGED <<api_configs, cooldown_periods, now>>

reported_error_count(service, api_key) == error_counts[service][api_key] + 1

\* Mutant: a failure never shortens the cooldown already set.
reported_cooldown_max(service, api_key, error_type) ==
    IF cooldown_periods[service][api_key] > cooldown_for(error_type)
    THEN cooldown_periods[service][api_key]
    ELSE cooldown_for(error_type)

reported_cooldown(service, api_key, error_type) == cooldown_for(error_type)

report_error(service, api_key, error_type) ==
    /\ IF service \in DOMAIN error_counts /\ api_key \in DOMAIN error_counts[service]
       THEN /\ error_counts[service][api_key] < MaxErrors
            /\ error_counts' =
                 [error_counts EXCEPT ![service][api_key] = reported_error_count(service, api_key)]
            /\ cooldown_periods' =
                 [cooldown_periods EXCEPT ![service][api_key] =
                     reported_cooldown(service, api_key, error_type)]
       ELSE UNCHANGED <<error_counts, cooldown_periods>>
    /\ last' = Call("report_error", service, api_key, error_type, None, "none", NoStatus)
    /\ UNCHANGED <<api_configs, current_indices, last_used, now>>

\* A request thread outside report_error: seen is the count it has read and
\* done the number of its calls that found the key and have returned.
NewReporter == [pc |-> "idle", seen |-> 0, error_type |-> None, done |-> 0]

\* report_error run by a request thread beside the others, statement by
\* statement.  First the test of the key and the read of its count, the left
\* half of the += .
reporter_reads(r, service, api_key, error_type) ==
    /\ reporters[r].pc = "idle"
    /\ reporters[r].done < MaxFailures
    /\ reporters' = [reporters EXCEPT ![r] =
                       IF service \in DOMAIN error_counts
                            /\ api_key \in DOMAIN error_counts[service]
                       THEN [@ EXCEPT !.pc = "read",
                                      !.seen = error_counts[service][api_key],
                                      !.error_type = error_type]
                       ELSE @]
    /\ UNCHANGED <<mgr, now, last>>

\* The right half of the += : the count read, plus one, is stored.
reporter_writes(r, service, api_key) ==
    /\ reporters[r].pc = "read"
    /\ error_counts' = [error_counts EXCEPT ![service][api_key] = reporters[r].seen + 1]
    /\ reporters' = [reporters EXCEPT ![r].pc = "counted"]
    /\ UNCHANGED <<api_configs, current_indices, last_used, cooldown_periods, now, last>>

\* The cooldown of the error type is stored and the call returns.
reporter_cools(r, service, api_key) ==
    /\ reporters[r].pc = "counted"
    /\ cooldown_periods' =
         [cooldown_periods EXCEPT ![service][api_key] =
             cooldown_for(reporters[r].error_type)]
    /\ reporters' = [reporters EXCEPT ![r].pc = "idle", ![r].done = @ + 1]
    /\ last' = Call("report_error", service, api_key, reporters[r].error_type,
                    None, "none", NoStatus)
    /\ UNCHANGED <<api_configs, current_indices, error_counts, last_used, now>>

\* Mutant: every key of the pool is counted as available.
available_count_all(service) == Len(api_configs[service])

available_count(service) ==
    Cardinality({i \in 1..Len(api_configs[service]) :
                   is_api_available(service, api_configs[service][i])})

\* Mutant: a service without keys is reported like a pool with no usable key.
service_status_degraded(service) ==
    IF ~Configured(service)
    THEN [status |-> "degraded", total_apis |-> 0, available_apis |-> 0, current_index |-> 0]
    ELSE [status |-> IF available_count(service) > 0 THEN "healthy" ELSE "degraded",
          total_apis |-> Len(api_configs[service]),
          available_apis |-> available_count(service),
          current_index |-> current_indices[service]]

service_status(service) ==
    IF ~Configured(service)
    THEN [status |-> "not_configured", total_apis |-> -1, available_apis |-> 0,
          current_index |-> -1]
    ELSE [status |-> IF available_count(service) > 0 THEN "healthy" ELSE "degraded",
          total_apis |-> Len(api_configs[service]),
          available_apis |-> available_count(service),
          current_index |-> current_indices[service]]

\* Mutant: a status query moves the cursor of the service one place on.
get_service_status_rotating(service) ==
    /\ last' = Call("get_service_status", service, None, None, None, "none",
                    service_status(service))
    /\ current_indices' =
         [s \in DOMAIN current_indices |->
            IF s = service
            THEN (current_indices[s] + 1) % Len(api_configs[s])
            ELSE current_indices[s]]
    /\ UNCHANGED <<api_configs, error_counts, last_used, cooldown_periods, now>>

get_service_status(service) ==
    /\ last' = Call("get_service_status", service, None, None, None, "none",
                    service_status(service))
    /\ UNCHANGED <<mgr, now>>

\* Mutant: the service argument is ignored.
reset_scope_all(service) == DOMAIN error_counts

\* The services reset_errors(service) clears; None clears every service.
reset_scope(service) ==
    IF service # None
    THEN (IF service \in DOMAIN error_counts THEN {service} ELSE {})
    ELSE DOMAIN error_counts

\* Mutant: a reset clears the error counts and leaves the cooldowns.
reset_errors_counts_only(service) ==
    /\ error_counts' =
         [svc \in DOMAIN error_counts |->
            IF svc \in reset_scope(service)
            THEN [k \in DOMAIN error_counts[svc] |-> 0]
            ELSE error_counts[svc]]
    /\ last' = Call("reset_errors", service, None, None, None, "none", NoStatus)
    /\ UNCHANGED <<api_configs, current_indices, last_used, cooldown_periods, now>>

reset_errors(service) ==
    /\ error_counts' =
         [svc \in DOMAIN error_counts |->
            IF svc \in reset_scope(service)
            THEN [k \in DOMAIN error_counts[svc] |-> 0]
            ELSE error_counts[svc]]
    /\ cooldown_periods' =
         [svc \in DOMAIN cooldown_periods |->
            IF svc \in reset_scope(service)
            THEN [k \in DOMAIN cooldown_periods[svc] |-> 0]
            ELSE cooldown_periods[svc]]
    /\ last' = Call("reset_errors", service, None, None, None, "none", NoStatus)
    /\ UNCHANGED <<api_configs, current_indices, last_used, now>>

\* __init__ for one environment.
Constructed(configs) ==
    /\ api_configs = configs
    /\ current_indices = [s \in DOMAIN configs |-> 0]
    /\ error_counts = [s \in DOMAIN configs |-> [k \in Range(configs[s]) |-> 0]]
    /\ last_used = [s \in DOMAIN configs |-> [k \in Range(configs[s]) |-> 0 - InitialAge]]
    /\ cooldown_periods = [s \in DOMAIN configs |-> [k \in Range(configs[s]) |-> 0]]

----------------------------------------------------------------------------
(* AlibabaWebSailor, the class defined last in the module: the one that
   get_websailor returns and execute_comprehensive_search calls *)

TargetSize == 500 * 1024
BatchWidth == 10
MinTextChars == 100

GoogleSearchPages == 10
BingSearchPages == 5
DuckDuckGoPages == 1
MarketingSites == 8

\* len(_generate_search_urls(query))
NumUrls == GoogleSearchPages + BingSearchPages + DuckDuckGoPages + MarketingSites

\* What _parse_html_content makes of a fetched page: the length of the text in
\* characters and its size in UTF-8 bytes.
PageTexts ==
    { [chars |-> 100, size_bytes |-> 100],
      [chars |-> 100, size_bytes |-> 200],
      [chars |-> 300, size_bytes |-> 300],
      [chars |-> 128000, size_bytes |-> 128000] }

\* What the result file does when _save_content_chunk opens it.
SinkOutcomes == {"ok", "read_fails", "write_fails"}

Min(a, b) == IF a < b THEN a ELSE b

RECURSIVE SumOf(_)
SumOf(sizes) == IF sizes = <<>> THEN 0 ELSE sizes[1] + SumOf(Tail(sizes))

NoFile == [status |-> "none", text_content |-> <<>>, content_size_bytes |-> 0]

\* The document _initialize_result_file writes.
initial_data == [status |-> "in_progress", text_content |-> <<>>, content_size_bytes |-> 0]

NoSailorReport == [success |-> "none", content_size |-> 0]

\* __init__, with the file of the product not written yet.  fetches counts
\* the requests the running call has sent, saves its calls of
\* _save_content_chunk and rounds the calls of execute_massive_search;
\* last_fetch tells how the latest request of the running batch ended and
\* last_size the size in bytes of the page it parsed, if it did; base is
\* total_content_size as the latest batch found it and gain the sizes of the
\* pages that passed the floor since, both taken anew when a call starts.
NewSailor ==
    [total_content_size |-> 0, file |-> NoFile, pc |-> "idle", url |-> 0,
     waiting |-> 0, fetching |-> 0, report |-> NoSailorReport,
     fetches |-> 0, saves |-> 0, rounds |-> 0, last_fetch |-> "none",
     last_size |-> 0, base |-> 0, gain |-> 0]

\* execute_massive_search up to the text search: the file is initialised.
massive_search_starts ==
    /\ sailor.pc \in {"idle", "done"}
    /\ sailor.rounds < MaxSessions
    /\ sailor' = [sailor EXCEPT !.file = initial_data, !.pc = "loop", !.url = 0,
                                !.waiting = 0, !.fetching = 0,
                                !.report = NoSailorReport,
                                !.fetches = 0, !.saves = 0, !.rounds = @ + 1,
                                !.last_fetch = "none", !.last_size = 0,
                                !.base = sailor.total_content_size, !.gain = 0]

\* Mutant: every address that is left goes into one gather.
batch_size_all ==
    IF sailor.total_content_size >= TargetSize
    THEN 0
    ELSE NumUrls - sailor.url

\* The tasks the for loop of _massive_text_search appends before its next
\* gather: none once the size has reached the target, else up to a batch.
batch_size ==
    IF sailor.total_content_size >= TargetSize
    THEN 0
    ELSE Min(BatchWidth, NumUrls - sailor.url)

\* _massive_text_search from the top of its loop to the next gather, or to its
\* end when there is nothing left to gather.
next_batch ==
    /\ sailor.pc = "loop"
    /\ sailor' = IF batch_size = 0
                 THEN [sailor EXCEPT !.pc = "images"]
                 ELSE [sailor EXCEPT !.pc = "gather", !.url = @ + batch_size,
                                     !.waiting = batch_size,
                                     !.last_fetch = "none", !.last_size = 0,
                                     !.base = sailor.total_content_size,
                                     !.gain = 0]

\* _extract_content_from_url up to its request: a task that finds the target
\* reached returns, another one sends its request.
task_starts ==
    /\ sailor.pc = "gather"
    /\ sailor.waiting > 0
    /\ sailor' = IF sailor.total_content_size >= TargetSize
                 THEN [sailor EXCEPT !.waiting = @ - 1]
                 ELSE [sailor EXCEPT !.waiting = @ - 1, !.fetching = @ + 1,
                                     !.fetches = @ + 1]

\* Mutant: the size of the entry is added to total_content_size twice.
save_content_chunk_twice(record, content, sink) ==
    IF sink = "ok"
    THEN [record EXCEPT !.total_content_size = @ + 2 * content.size_bytes,
                        !.file.text_content = Append(@, content.size_bytes),
                        !.file.content_size_bytes = @ + content.size_bytes]
    ELSE record

\* Mutant: the entry is put in front of the others.
save_content_chunk_front(record, content, sink) ==
    IF sink = "ok"
    THEN [record EXCEPT !.total_content_size = @ + content.size_bytes,
                        !.file.text_content = <<content.size_bytes>> \o @,
                        !.file.content_size_bytes = @ + content.size_bytes]
    ELSE record

\* _save_content_chunk: the file is read, the entry and its size are added to
\* the document, the size is added to total_content_size, the file is written.
\* An exception at any of these is logged and leaves what was done before it.
save_content_chunk(record, content, sink) ==
    CASE sink = "read_fails" -> record
      [] sink = "write_fails" ->
           [record EXCEPT !.total_content_size = @ + content.size_bytes]
      [] OTHER ->
           [record EXCEPT !.total_content_size = @ + content.size_bytes,
                          !.file.text_content = Append(@, content.size_bytes),
                          !.file.content_size_bytes = @ + content.size_bytes]

\* The rest of _extract_content_from_url when the response is a page.
fetch_returns(content, sink) ==
    /\ sailor.pc = "gather"
    /\ sailor.fetching > 0
    /\ IF content.chars > MinTextChars
       THEN /\ sailor.saves < MaxSaves
            /\ sailor' = save_content_chunk(
                             [sailor EXCEPT !.fetching = @ - 1, !.saves = @ + 1,
                                            !.last_fetch = "accepted",
                                            !.last_size = content.size_bytes,
                                            !.gain = @ + content.size_bytes],
                             content, sink)
       ELSE /\ sink = "ok"
            /\ sailor' = [sailor EXCEPT !.fetching = @ - 1,
                                        !.last_fetch = "rejected",
                                        !.last_size = content.size_bytes]

\* Mutant: a request that raises cancels the tasks that have not started.
fetch_fails_cancels ==
    /\ sailor.pc = "gather"
    /\ sailor.fetching > 0
    /\ sailor' = [sailor EXCEPT !.fetching = @ - 1, !.waiting = 0,
                                !.last_fetch = "failed", !.last_size = 0]

\* The rest of _extract_content_from_url when the request raises, the status
\* is not 200 or the page cannot be parsed.
fetch_fails ==
    /\ sailor.pc = "gather"
    /\ sailor.fetching > 0
    /\ sailor' = [sailor EXCEPT !.fetching = @ - 1, !.last_fetch = "failed",
                                !.last_size = 0]

\* gather returns when every task of the batch has.
gather_ends ==
    /\ sailor.pc = "gather"
    /\ sailor.waiting = 0
    /\ sailor.fetching = 0
    /\ sailor' = [sailor EXCEPT !.pc = "loop"]

\* The image search, _finalize_result_file and the return of the call.
massive_search_returns ==
    /\ sailor.pc = "images"
    /\ sailor' = [sailor EXCEPT !.pc = "done", !.file.status = "completed",
                                !.report = [success |-> "true",
                                            content_size |-> sailor.total_content_size]]

\* A request thread before its call of execute_massive_search: file is the
\* result file of its product, seen the size it has read for the += of
\* _save_content_chunk, pending the size of the entry being saved, saves the
\* number of its calls of _save_content_chunk and own the sizes it has added.
NewThread ==
    [pc |-> "idle", file |-> NoFile, seen |-> 0, pending |-> 0, saves |-> 0,
     own |-> 0, report |-> NoSailorReport]

\* execute_massive_search in a request thread, up to the text search: the
\* file of the product is initialised on the instance every thread uses.
thread_starts(r) ==
    /\ threads[r].pc = "idle"
    /\ threads' = [threads EXCEPT ![r].pc = "text", ![r].file = initial_data]
    /\ UNCHANGED sailor

\* A task of the thread whose request is answered with a page over the
\* floor, from its test of the target to the read of total_content_size in
\* _save_content_chunk; a file that cannot be read ends the save there.
thread_reads(r, content, sink) ==
    /\ threads[r].pc = "text"
    /\ threads[r].saves < MaxThreadSaves
    /\ sailor.total_content_size < TargetSize
    /\ content.chars > MinTextChars
    /\ sink \in {"ok", "read_fails"}
    /\ threads' = [threads EXCEPT ![r] =
                     IF sink = "read_fails"
                     THEN [@ EXCEPT !.saves = @ + 1]
                     ELSE [@ EXCEPT !.pc = "adding", !.saves = @ + 1,
                                    !.seen = sailor.total_content_size,
                                    !.pending = content.size_bytes]]
    /\ UNCHANGED sailor

\* The rest of _save_content_chunk: the size read, plus that of the entry,
\* is stored in total_content_size and the file is written.
thread_adds(r, sink) ==
    /\ threads[r].pc = "adding"
    /\ sink \in {"ok", "write_fails"}
    /\ LET saved == save_content_chunk(
                        [total_content_size |-> threads[r].seen,
                         file |-> threads[r].file],
                        [size_bytes |-> threads[r].pending], sink)
       IN  /\ sailor' = [sailor EXCEPT !.total_content_size = saved.total_content_size]
           /\ threads' = [threads EXCEPT ![r].pc = "text",
                                         ![r].file = saved.file,
                                         ![r].own = @ + threads[r].pending]

\* The end of the text search, _finalize_result_file and the return value.
thread_returns(r) ==
    /\ threads[r].pc = "text"
    /\ threads' = [threads EXCEPT ![r].pc = "done",
                                  ![r].file.status = "completed",
                                  ![r].report =
                                      [success |-> "true",
                                       content_size |-> sailor.total_content_size]]
    /\ UNCHANGED sailor

----------------------------------------------------------------------------
(* AlibabaWebSailor, the class defined first in the module and shadowed by
   the second definition: the page loop of _search_text_content *)

TargetContentSize == 500000
PageCeiling == 50
MinContentBytes == 100

\* A result of the search capability: the size in UTF-8 bytes of its title,
\* content and snippet joined by spaces, or something that is no dictionary.
Results ==
    { [ok |-> TRUE, size |-> 100], [ok |-> TRUE, size |-> 101],
      [ok |-> TRUE, size |-> 250000], [ok |-> FALSE, size |-> 0] }

\* The 'results' lists that search_comprehensive returns.
Batches == {<<>>} \cup {<<a>> : a \in Results} \cup {<<a, b>> : a \in Results, b \in {[ok |-> TRUE, size |-> 101]}}

NoShadowedReport == [success |-> "none", content_size |-> 0, text_entries |-> 0]

NoEarlier == [report |-> NoShadowedReport, ended_by |-> "none"]

\* __init__.  requested counts the calls of search_comprehensive of the
\* running call, last_search tells what the latest of them did, ended_by
\* tells which exit its loop took, earlier keeps the report and the exit of
\* the call before, rounds counts the calls.
NewShadowed ==
    [extracted_content_size |-> 0, content_buffer |-> <<>>, pc |-> "idle",
     page |-> 0, report |-> NoShadowedReport,
     requested |-> 0, last_search |-> "none", ended_by |-> "none",
     earlier |-> NoEarlier, rounds |-> 0]

\* _extract_and_add_content: an entry above the floor is appended and its size
\* added; an exception is logged and the result skipped.
extract_and_add_content(session, result) ==
    IF result.ok /\ result.size > MinContentBytes
    THEN [session EXCEPT !.content_buffer = Append(@, result.size),
                         !.extracted_content_size = @ + result.size]
    ELSE session

\* The for loop over the results of a page: it stops when the size reaches
\* the target.
RECURSIVE process_results(_, _)
process_results(session, results) ==
    IF results = <<>>
    THEN session
    ELSE LET added == extract_and_add_content(session, Head(results))
         IN  IF added.extracted_content_size >= TargetContentSize
             THEN added
             ELSE process_results(added, Tail(results))

over_ceiling_early(page) == page >= PageCeiling

\* The test of the page limit.
over_ceiling(page) == page > PageCeiling

\* execute_massive_search up to the page loop: the session is reset.
text_search_starts ==
    /\ shadowed.pc \in {"idle", "done"}
    /\ shadowed.rounds < MaxSessions
    /\ shadowed' = [shadowed EXCEPT
                      !.extracted_content_size = 0, !.content_buffer = <<>>,
                      !.pc = "while", !.page = 1, !.report = NoShadowedReport,
                      !.requested = 0, !.last_search = "none",
                      !.ended_by = "none", !.rounds = @ + 1,
                      !.earlier = IF shadowed.pc = "done"
                                  THEN [report |-> shadowed.report,
                                        ended_by |-> shadowed.ended_by]
                                  ELSE @]

\* The while test: below the target the page is requested, else the loop ends.
page_requested ==
    /\ shadowed.pc = "while"
    /\ shadowed' = IF shadowed.extracted_content_size < TargetContentSize
                   THEN [shadowed EXCEPT !.pc = "search", !.requested = @ + 1]
                   ELSE [shadowed EXCEPT !.pc = "save", !.ended_by = "budget"]

\* Mutant: a page whose results were processed is requested again.
page_returns_again(batch) ==
    /\ shadowed.pc = "search"
    /\ Len(process_results(shadowed, batch).content_buffer) <= MaxBuffer
    /\ shadowed' = IF batch = <<>>
                   THEN [shadowed EXCEPT !.pc = "save", !.ended_by = "empty",
                                         !.last_search = "empty"]
                   ELSE [process_results(shadowed, batch) EXCEPT
                           !.pc = "sleep", !.last_search = "results"]

\* search_comprehensive returns: without results the loop ends; else the
\* results are processed, the page advances and the loop sleeps.
page_returns(batch) ==
    /\ shadowed.pc = "search"
    /\ Len(process_results(shadowed, batch).content_buffer) <= MaxBuffer
    /\ shadowed' = IF batch = <<>>
                   THEN [shadowed EXCEPT !.pc = "save", !.ended_by = "empty",
                                         !.last_search = "empty"]
                   ELSE [process_results(shadowed, batch) EXCEPT
                           !.pc = "sleep", !.page = @ + 1,
                           !.last_search = "results"]

\* search_comprehensive raises: the except clause of _search_text_content logs
\* and the text search is over.
page_raises ==
    /\ shadowed.pc = "search"
    /\ shadowed' = [shadowed EXCEPT !.pc = "save", !.ended_by = "error",
                                    !.last_search = "raised"]

\* After the sleep: the page limit ends the loop, else the while test is next.
page_slept ==
    /\ shadowed.pc = "sleep"
    /\ shadowed' = IF over_ceiling(shadowed.page)
                   THEN [shadowed EXCEPT !.pc = "save", !.ended_by = "ceiling"]
                   ELSE [shadowed EXCEPT !.pc = "while"]

\* The image search, _save_search_results and the return of the call.
text_search_reported ==
    /\ shadowed.pc = "save"
    /\ shadowed' = [shadowed EXCEPT
                      !.pc = "done",
                      !.report = [success |-> "true",
                                  content_size |-> shadowed.extracted_content_size,
                                  text_entries |-> Len(shadowed.content_buffer)]]

----------------------------------------------------------------------------
(* routes/analysis.py, execute_complete_analysis, and the tag that the
   provider searches of the orchestrator put on their results *)

TagLength == 10

\* 'api_used': the first ten characters of the key, then three dots.
api_used(api_key) ==
    SubSeq(api_key, 1, Min(TagLength, Len(api_key))) \o <<".", ".", ".">>

\* What execute_comprehensive_search returns: the searches and the collection
\* catch their own failures, so success is True whatever they met.
comprehensive_result(results, websailor_success, api_key) ==
    [success |-> "true",
     websailor_search |-> websailor_success,
     api_search_results |-> results,
     api_used |-> IF results = {} THEN <<>> ELSE api_used(api_key)]

NoResult == [success |-> "none", websailor_search |-> "none",
             api_search_results |-> {}, api_used |-> <<>>]

NoResponse == [code |-> 0, success |-> "none", error |-> "none",
               search_results |-> NoResult]

\* The answers of the route.
invalid_response(error) ==
    [code |-> 400, success |-> "false", error |-> error, search_results |-> NoResult]

failure_response(error) ==
    [code |-> 500, success |-> "false", error |-> error, search_results |-> NoResult]

timeout_response ==
    [code |-> 408, success |-> "false", error |-> "Timeout na busca massiva",
     search_results |-> NoResult]

\* Mutant: the answer says success False when a provider has no result.
complete_response_strict(search_result) ==
    [code |-> 200,
     success |-> IF search_result.api_search_results = {}
                 THEN "false" ELSE search_result.success,
     error |-> "none", search_results |-> search_result]

complete_response(search_result) ==
    [code |-> 200, success |-> search_result.success, error |-> "none",
     search_results |-> search_result]

\* The route before a request: secret is the key the providers are called
\* with, thread the search thread, queue what it has put in result_queue.
NewRoute(secret) ==
    [pc |-> "idle", secret |-> secret, thread |-> "none", queue |-> NoResult,
     response |-> NoResponse]

\* The request is read: without data or without a query it is answered at
\* once, a body that cannot be read raises into the except clause of the
\* route, and otherwise the search thread is started.
request_received(data) ==
    /\ route.pc = "idle"
    /\ route' =
         CASE data = "no_data" ->
                [route EXCEPT !.pc = "responded",
                              !.response = invalid_response("Dados nao fornecidos")]
           [] data = "no_query" ->
                [route EXCEPT !.pc = "responded",
                              !.response = invalid_response("Query e obrigatoria")]
           [] data = "raises" ->
                [route EXCEPT !.pc = "responded",
                              !.response = failure_response("exception")]
           [] OTHER -> [route EXCEPT !.pc = "join", !.thread = "running"]

\* run_async_search: the search ends and its result is put in the queue,
\* whether or not the route still waits for it.
run_async_search(results, websailor_success) ==
    /\ route.thread = "running"
    /\ route' = [route EXCEPT
                   !.thread = "finished",
                   !.queue = comprehensive_result(results, websailor_success,
                                                  route.secret)]

\* search_thread.join(timeout=300) returns: the thread has ended, or the
\* time is up.
join_returns ==
    /\ route.pc = "join"
    /\ route' = [route EXCEPT !.pc = "check"]

\* Mutant: the thread is never seen alive.
is_alive_never == FALSE

\* search_thread.is_alive().
is_alive == route.thread = "running"

\* The rest of the route: the timeout answer for a thread that is alive,
\* else the answer built from the result in the queue.
response_built ==
    /\ route.pc = "check"
    /\ route' = [route EXCEPT
                   !.pc = "responded",
                   !.response =
                      IF is_alive
                      THEN timeout_response
                      ELSE IF route.queue = NoResult
                           THEN failure_response("Nenhum resultado da busca")
                           ELSE complete_response(route.queue)]

----------------------------------------------------------------------------
(* The manager under an arbitrary client *)

NoFailure == 0 - 1
Requests == 1..NumCalls
NoReport == [success |-> "none", api_search_results |-> {}]
Idle == [pc |-> "idle", provider |-> 0, key |-> None, outcome |-> "none",
         results |-> {}, report |-> NoReport]

Init ==
    /\ \E configs \in Environments : Constructed(configs)
    /\ now = 0
    /\ last = [op |-> "init", service |-> None, api_key |-> None, error_type |-> None,
               ret |-> None, path |-> "none", status |-> NoStatus, flip |-> 0]
    /\ failed_at = [s \in DOMAIN api_configs |-> [k \in Range(api_configs[s]) |-> NoFailure]]
    /\ calls = [r \in Requests |-> Idle]
    /\ outcomes = [r \in Requests |-> <<>>]
    /\ sailor = NewSailor
    /\ shadowed = NewShadowed
    /\ threads = [r \in Requests |-> NewThread]
    /\ reporters = [r \in Requests |-> NewReporter]
    /\ route = NewRoute(<<>>)

tick ==
    /\ \E t \in Instants : t > now /\ now' = t
    /\ last' = Call("tick", None, None, None, None, "none", NoStatus)
    /\ UNCHANGED mgr

Tick == tick /\ UNCHANGED <<failed_at, engine, collectors, parallel>>

GetNextApi ==
    /\ \E service \in Services : get_next_api(service)
    /\ UNCHANGED <<failed_at, engine, collectors, parallel>>

ReportError ==
    /\ \E service \in Services :
         \/ \E api_key \in PoolKeys(service), error_type \in ErrorTypes :
              report_error(service, api_key, error_type)
         \/ report_error(service, ForeignKey, "generic")
    /\ UNCHANGED <<failed_at, engine, collectors, parallel>>

GetServiceStatus ==
    /\ \E service \in Services : get_service_status(service)
    /\ UNCHANGED <<failed_at, engine, collectors, parallel>>

ResetErrors ==
    /\ \E service \in Services \cup {None} : reset_errors(service)
    /\ UNCHANGED <<failed_at, engine, collectors, parallel>>

Next == Tick \/ GetNextApi \/ ReportError \/ GetServiceStatus \/ ResetErrors

Spec == Init /\ [][Next]_vars

----------------------------------------------------------------------------
(* The manager under a client that reports at most MaxFailures failures in a
   row on a credential, with the second of each credential's latest failure
   kept beside the manager's state *)

InitQuota == Init /\ DOMAIN api_configs = {"exa"}

QuotaTick == tick /\ UNCHANGED <<failed_at, engine, collectors, parallel>>

QuotaSelect == get_next_api("exa") /\ UNCHANGED <<failed_at, engine, collectors, parallel>>

QuotaFailure ==
    \E api_key \in PoolKeys("exa"), error_type \in ErrorTypes :
        /\ error_counts["exa"][api_key] < MaxFailures
        /\ report_error("exa", api_key, error_type)
        /\ failed_at' = [failed_at EXCEPT !["exa"][api_key] = now]
        /\ UNCHANGED <<engine, collectors, parallel>>

NextQuota == QuotaTick \/ QuotaSelect \/ QuotaFailure

SpecQuota == InitQuota /\ [][NextQuota]_vars

----------------------------------------------------------------------------
(* RealSearchOrchestrator: the provider searches of concurrent requests *)

Providers == <<"exa", "tavily", "serpapi">>

\* What the provider's library or HTTP call does: it returns results, or
\* returns none, or raises an exception whose text holds "rate", or one that
\* tells of an exhausted quota without the word, or another one.
AdapterOutcomes ==
    {"returns", "returns_empty", "raises_rate", "raises_quota", "raises_other"}

Returning == {"returns", "returns_empty"}
Raising == AdapterOutcomes \ Returning

classify_generic(outcome) == "generic"

\* The error type the except clause hands to report_error.
classify(outcome) == IF outcome = "raises_rate" THEN "rate_limit" ELSE "generic"

\* execute_comprehensive_search's return value once the searches are over.
consolidated(results) == [success |-> "true", api_search_results |-> results]

with_result_always(results, provider, outcome) == results \cup {provider}

\* Mutant: a provider that returns results drops those of the others.
with_result_only(results, provider, outcome) ==
    IF outcome = "returns" THEN {provider} ELSE results

\* results after the search of a provider: its key is set when the search
\* returned a dictionary whose 'results' list is not empty.
with_result(results, provider, outcome) ==
    IF outcome = "returns" THEN results \cup {provider} ELSE results

\* Mutant: a provider without a key ends the searches.
after_search_stop(r, outcome, results) ==
    IF calls[r].provider < Len(Providers) /\ outcome # "no_key"
    THEN [pc |-> "select", provider |-> calls[r].provider + 1, key |-> None,
          outcome |-> outcome, results |-> results, report |-> NoReport]
    ELSE [pc |-> "done", provider |-> calls[r].provider, key |-> None,
          outcome |-> outcome, results |-> results,
          report |-> [success |-> "true", api_search_results |-> results]]

\* After the search of provider i: the next provider's search, or the end.
after_search(r, outcome, results) ==
    IF calls[r].provider < Len(Providers)
    THEN [pc |-> "select", provider |-> calls[r].provider + 1, key |-> None,
          outcome |-> outcome, results |-> results, report |-> NoReport]
    ELSE [pc |-> "done", provider |-> calls[r].provider, key |-> None,
          outcome |-> outcome, results |-> results, report |-> consolidated(results)]

\* A request reaches _search_with_multiple_apis.
start_search(r) ==
    /\ calls[r].pc \in {"idle", "done"}
    /\ calls' = [calls EXCEPT ![r] =
                   [pc |-> "select", provider |-> 1, key |-> None, outcome |-> "none",
                    results |-> {}, report |-> NoReport]]
    /\ UNCHANGED <<mgr, now, last>>

\* _search_with_<provider>, up to the provider call: the key is requested, and
\* without a key the search returns None.
search_selects(r) ==
    /\ calls[r].pc = "select"
    /\ get_next_api(Providers[calls[r].provider])
    /\ calls' = [calls EXCEPT ![r] =
                   IF last'.ret = None
                   THEN after_search(r, "no_key", calls[r].results)
                   ELSE [pc |-> "adapter", provider |-> calls[r].provider,
                         key |-> last'.ret, outcome |-> "none",
                         results |-> calls[r].results, report |-> NoReport]]

\* The provider call returns: the search returns its results and makes no call
\* to the manager.
search_returns(r, outcome) ==
    /\ calls[r].pc = "adapter"
    /\ calls' = [calls EXCEPT ![r] =
                   after_search(r, "succeeded",
                                with_result(calls[r].results,
                                            Providers[calls[r].provider], outcome))]
    /\ UNCHANGED <<mgr, now, last>>

\* The provider call raises: the except clause classifies and reports, and the
\* search returns None.
search_raises(r, outcome) ==
    /\ calls[r].pc = "adapter"
    /\ report_error(Providers[calls[r].provider], calls[r].key, classify(outcome))
    /\ calls' = [calls EXCEPT ![r] = after_search(r, "failed", calls[r].results)]

StartSearch(r) == start_search(r) /\ UNCHANGED <<failed_at, outcomes, collectors, parallel>>

SearchSelects(r) == search_selects(r) /\ UNCHANGED <<failed_at, outcomes, collectors, parallel>>

SearchSucceeds(r) ==
    /\ \E outcome \in Returning : search_returns(r, outcome)
    /\ UNCHANGED <<failed_at, outcomes, collectors, parallel>>

SearchFails(r) ==
    /\ \E outcome \in Raising : search_raises(r, outcome)
    /\ UNCHANGED <<failed_at, outcomes, collectors, parallel>>

CallsTick == tick /\ UNCHANGED <<failed_at, engine, collectors, parallel>>

NextCalls ==
    \/ CallsTick
    \/ \E r \in Requests : StartSearch(r)
    \/ \E r \in Requests : SearchSelects(r)
    \/ \E r \in Requests : SearchSucceeds(r)
    \/ \E r \in Requests : SearchFails(r)

SpecCalls == Init /\ [][NextCalls]_vars

----------------------------------------------------------------------------
(* RealSearchOrchestrator: one request after another, in every environment of
   one key per configured provider, with what each provider call did kept
   beside the request *)

ReportEnvironments ==
    { [s \in configured |-> <<CASE s = "exa" -> "e1" [] s = "tavily" -> "t1"
                                [] s = "serpapi" -> "s1">>] :
        configured \in SUBSET Range(Providers) }

InitReport ==
    /\ \E configs \in ReportEnvironments : Constructed(configs)
    /\ now = 0
    /\ last = [op |-> "init", service |-> None, api_key |-> None, error_type |-> None,
               ret |-> None, path |-> "none", status |-> NoStatus, flip |-> 0]
    /\ failed_at = [s \in DOMAIN api_configs |-> [k \in Range(api_configs[s]) |-> NoFailure]]
    /\ calls = [r \in Requests |-> Idle]
    /\ outcomes = [r \in Requests |-> <<>>]
    /\ sailor = NewSailor
    /\ shadowed = NewShadowed
    /\ threads = [r \in Requests |-> NewThread]
    /\ reporters = [r \in Requests |-> NewReporter]
    /\ route = NewRoute(<<>>)

ReportTick == tick /\ UNCHANGED <<failed_at, engine, collectors, parallel>>

ReportStart ==
    /\ start_search(1)
    /\ outcomes' = [outcomes EXCEPT ![1] = <<>>]
    /\ UNCHANGED <<failed_at, collectors, parallel>>

ReportSelects ==
    /\ search_selects(1)
    /\ outcomes' = [outcomes EXCEPT ![1] =
                      IF last'.ret = None THEN Append(@, "no_key") ELSE @]
    /\ UNCHANGED <<failed_at, collectors, parallel>>

ReportReturns ==
    \E outcome \in Returning :
        /\ search_returns(1, outcome)
        /\ outcomes' = [outcomes EXCEPT ![1] = Append(@, outcome)]
        /\ UNCHANGED <<failed_at, collectors, parallel>>

ReportRaises ==
    \E outcome \in Raising :
        /\ search_raises(1, outcome)
        /\ outcomes' = [outcomes EXCEPT ![1] = Append(@, outcome)]
        /\ UNCHANGED <<failed_at, collectors, parallel>>

NextReport == ReportTick \/ ReportStart \/ ReportSelects \/ ReportReturns \/ ReportRaises

SpecReport == InitReport /\ [][NextReport]_vars

----------------------------------------------------------------------------
(* AlibabaWebSailor in use: one call of execute_massive_search after another *)

others == <<mgr, now, last, failed_at, engine, parallel>>

InitSailor == Init /\ DOMAIN api_configs = {"exa"}

MassiveSearchStarts == massive_search_starts /\ UNCHANGED <<others, shadowed>>

NextBatch == next_batch /\ UNCHANGED <<others, shadowed>>

TaskStarts == task_starts /\ UNCHANGED <<others, shadowed>>

FetchReturns ==
    /\ \E content \in PageTexts, sink \in SinkOutcomes : fetch_returns(content, sink)
    /\ UNCHANGED <<others, shadowed>>

FetchFails == fetch_fails /\ UNCHANGED <<others, shadowed>>

GatherEnds == gather_ends /\ UNCHANGED <<others, shadowed>>

MassiveSearchReturns == massive_search_returns /\ UNCHANGED <<others, shadowed>>

NextSailor ==
    \/ MassiveSearchStarts
    \/ NextBatch
    \/ TaskStarts
    \/ FetchReturns
    \/ FetchFails
    \/ GatherEnds
    \/ MassiveSearchReturns

SpecSailor == InitSailor /\ [][NextSailor]_vars

----------------------------------------------------------------------------
(* AlibabaWebSailor in use: one call of execute_massive_search on an instance
   that holds what the calls before it have counted *)

\* total_content_size when the call starts: nothing, one small page, three
\* quarters of the target, the target.
CarriedSizes == {0, 300, 384000, 512000}

InitOneCall ==
    /\ \E configs \in Environments : Constructed(configs)
    /\ DOMAIN api_configs = {"exa"}
    /\ now = 0
    /\ last = [op |-> "init", service |-> None, api_key |-> None, error_type |-> None,
               ret |-> None, path |-> "none", status |-> NoStatus, flip |-> 0]
    /\ failed_at = [s \in DOMAIN api_configs |-> [k \in Range(api_configs[s]) |-> NoFailure]]
    /\ calls = [r \in Requests |-> Idle]
    /\ outcomes = [r \in Requests |-> <<>>]
    /\ \E carried \in CarriedSizes :
           sailor = [NewSailor EXCEPT !.total_content_size = carried,
                                      !.base = carried]
    /\ shadowed = NewShadowed
    /\ threads = [r \in Requests |-> NewThread]
    /\ reporters = [r \in Requests |-> NewReporter]
    /\ route = NewRoute(<<>>)

OneCallStarts ==
    /\ sailor.pc = "idle"
    /\ MassiveSearchStarts

NextOneCall ==
    \/ OneCallStarts
    \/ NextBatch
    \/ TaskStarts
    \/ FetchReturns
    \/ FetchFails
    \/ GatherEnds
    \/ MassiveSearchReturns

SpecOneCall == InitOneCall /\ [][NextOneCall]_vars

----------------------------------------------------------------------------
(* Requests served at the same time: routes/analysis.py gives each request a
   thread and an event loop of its own, and every thread works on the one
   AlibabaWebSailor and the one manager of the process *)

unthreaded == <<mgr, now, last, failed_at, engine, shadowed, reporters, route>>

ThreadStarts(r) == thread_starts(r) /\ UNCHANGED unthreaded

ThreadReads(r) ==
    /\ \E content \in PageTexts, sink \in SinkOutcomes : thread_reads(r, content, sink)
    /\ UNCHANGED unthreaded

ThreadAdds(r) ==
    /\ \E sink \in SinkOutcomes : thread_adds(r, sink)
    /\ UNCHANGED unthreaded

ThreadReturns(r) == thread_returns(r) /\ UNCHANGED unthreaded

NextThreads ==
    \/ \E r \in Requests : ThreadStarts(r)
    \/ \E r \in Requests : ThreadReads(r)
    \/ \E r \in Requests : ThreadAdds(r)
    \/ \E r \in Requests : ThreadReturns(r)

SpecThreads == InitSailor /\ [][NextThreads]_vars

\* The credential the threads report failures of.
Reported == api_configs["exa"][1]

ReporterReads(r) ==
    /\ \E error_type \in ErrorTypes : reporter_reads(r, "exa", Reported, error_type)
    /\ UNCHANGED <<failed_at, engine, collectors, threads, route>>

ReporterWrites(r) ==
    /\ reporter_writes(r, "exa", Reported)
    /\ UNCHANGED <<failed_at, engine, collectors, threads, route>>

ReporterCools(r) ==
    /\ reporter_cools(r, "exa", Reported)
    /\ UNCHANGED <<failed_at, engine, collectors, threads, route>>

NextReporters ==
    \/ \E r \in Requests : ReporterReads(r)
    \/ \E r \in Requests : ReporterWrites(r)
    \/ \E r \in Requests : ReporterCools(r)

SpecReporters == InitSailor /\ [][NextReporters]_vars

----------------------------------------------------------------------------
(* One request to /execute_complete_analysis, for keys of several lengths *)

\* The keys: letters in turn, shorter than the tag, as long, and longer.
Secrets ==
    { [i \in 1 .. n |-> IF i % 2 = 1 THEN "a" ELSE "b"] : n \in {8, 10, 11, 14} }

RequestData == {"no_data", "no_query", "raises", "valid"}

InitRoute ==
    /\ \E configs \in Environments : Constructed(configs)
    /\ DOMAIN api_configs = {"exa"}
    /\ now = 0
    /\ last = [op |-> "init", service |-> None, api_key |-> None, error_type |-> None,
               ret |-> None, path |-> "none", status |-> NoStatus, flip |-> 0]
    /\ failed_at = [s \in DOMAIN api_configs |-> [k \in Range(api_configs[s]) |-> NoFailure]]
    /\ calls = [r \in Requests |-> Idle]
    /\ outcomes = [r \in Requests |-> <<>>]
    /\ sailor = NewSailor
    /\ shadowed = NewShadowed
    /\ threads = [r \in Requests |-> NewThread]
    /\ reporters = [r \in Requests |-> NewReporter]
    /\ \E secret \in Secrets : route = NewRoute(secret)

unrouted == <<mgr, now, last, failed_at, engine, collectors, threads, reporters>>

RequestReceived ==
    /\ \E data \in RequestData : request_received(data)
    /\ UNCHANGED unrouted

RunAsyncSearch ==
    /\ \E results \in SUBSET Range(Providers), websailor_success \in {"true", "false"} :
          run_async_search(results, websailor_success)
    /\ UNCHANGED unrouted

JoinReturns == join_returns /\ UNCHANGED unrouted

ResponseBuilt == response_built /\ UNCHANGED unrouted

NextRoute == RequestReceived \/ RunAsyncSearch \/ JoinReturns \/ ResponseBuilt

SpecRoute == InitRoute /\ [][NextRoute]_vars

----------------------------------------------------------------------------
(* The first AlibabaWebSailor class: one call of execute_massive_search after
   another, with any search capability *)

TextSearchStarts == text_search_starts /\ UNCHANGED <<others, sailor>>

PageRequested == page_requested /\ UNCHANGED <<others, sailor>>

PageReturns ==
    /\ \E batch \in Batches : page_returns(batch)
    /\ UNCHANGED <<others, sailor>>

PageRaises == page_raises /\ UNCHANGED <<others, sailor>>

PageSlept == page_slept /\ UNCHANGED <<others, sailor>>

TextSearchReported == text_search_reported /\ UNCHANGED <<others, sailor>>

NextPages ==
    \/ TextSearchStarts
    \/ PageRequested
    \/ PageReturns
    \/ PageRaises
    \/ PageSlept
    \/ TextSearchReported

SpecPages == InitSailor /\ [][NextPages]_vars

----------------------------------------------------------------------------
(* Vocabulary of the properties *)

\* The availability check as the contract words it: outside the cooldown window
\* counted from the last use, and at most five consecutive errors.
PassesCheck(service, api_key) ==
    /\ now - last_used[service][api_key] >= cooldown_periods[service][api_key]
    /\ error_counts[service][api_key] <= 5

SomePasses(service) == \E k \in PoolKeys(service) : PassesCheck(service, k)

PassCount(service) == Cardinality({k \in PoolKeys(service) : PassesCheck(service, k)})

AllHealthy(service) ==
    \A k \in PoolKeys(service) :
        error_counts[service][k] = 0 /\ cooldown_periods[service][k] = 0

DurationOf(error_type) ==
    CASE error_type = "rate_limit" -> 300
      [] error_type = "quota_exceeded" -> 3600
      [] error_type = "generic" -> 60

Selected(call) == call.op = "get_next_api"

----------------------------------------------------------------------------
(* Properties *)

\* C1: with every credential of a pool healthy and no failure reported, successive
\* selections walk the pool in order: a selection that directly follows another
\* on the same provider returns the credential after the one returned before.
C1_RoundRobinFairness ==
    [][(/\ Selected(last) /\ Selected(last')
        /\ last'.service = last.service
        /\ Configured(last.service)
        /\ AllHealthy(last.service))
       => last'.ret = KeyAt(last.service,
                            (IndexOf(last.service, last.ret) + 1)
                               % Len(api_configs[last.service]))]_vars

\* C2: a selection leaves every error counter as it was.
C2_SelectionKeepsErrorCounts ==
    [][Selected(last') => error_counts' = error_counts]_vars

\* C3: while the latest failure reported on a credential is a quota failure less
\* than 3600 seconds old, reported after the credential's last selection, no
\* selection returns that credential if another credential of the pool passes
\* the availability check.
C3_QuotaCooldown ==
    [][~(/\ Selected(last') /\ Configured(last'.service)
         /\ last'.ret \in PoolKeys(last'.service)
         /\ cooldown_periods[last'.service][last'.ret] = 3600
         /\ failed_at[last'.service][last'.ret] # NoFailure
         /\ last_used[last'.service][last'.ret] >= 0
         /\ last_used[last'.service][last'.ret] <= failed_at[last'.service][last'.ret]
         /\ now < failed_at[last'.service][last'.ret] + 3600
         /\ \E other \in PoolKeys(last'.service) \ {last'.ret} :
               PassesCheck(last'.service, other))]_vars

\* C4: whenever some credential of the pool passes the availability check, the
\* selection returns a credential that passes it.
C4_SelectsAvailable ==
    [][(Selected(last') /\ Configured(last'.service) /\ SomePasses(last'.service))
       => /\ last'.ret \in PoolKeys(last'.service)
          /\ PassesCheck(last'.service, last'.ret)]_vars

\* C4 witness: a selection has gone past a credential that is over the error
\* threshold, though outside its cooldown window, and returned another one.
C4_Witness ==
    /\ Selected(last) /\ Configured(last.service) /\ last.path = "scan"
    /\ \E k \in PoolKeys(last.service) :
         /\ k # last.ret
         /\ error_counts[last.service][k] > 5
         /\ now - last_used[last.service][k] >= cooldown_periods[last.service][k]

\* C5: when no credential of a pool passes the availability check, the selection
\* still returns a credential of the pool, and none has an older last use.
C5_FallbackOldest ==
    [][(Selected(last') /\ Configured(last'.service) /\ ~SomePasses(last'.service))
       => /\ last'.ret \in PoolKeys(last'.service)
          /\ \A k \in PoolKeys(last'.service) :
               last_used[last'.service][last'.ret] <= last_used[last'.service][k]]_vars

\* C5 witness: the fallback has returned a credential other than the one under
\* the cursor of a pool of two.
C5_Witness ==
    /\ Selected(last) /\ Configured(last.service) /\ last.path = "fallback"
    /\ Len(api_configs[last.service]) = 2
    /\ last.ret # KeyAt(last.service, current_indices[last.service])

\* C6: for a provider without credentials a selection returns none and the
\* status is not_configured, never degraded.
C6_Unconfigured ==
    \A service \in Services \ DOMAIN api_configs :
        /\ (Selected(last) /\ last.service = service) => last.ret = None
        /\ (last.op = "get_service_status" /\ last.service = service)
             => last.status.status = "not_configured"

\* C6 witness: the status of a provider without credentials has been asked.
C6_Witness ==
    /\ last.op = "get_service_status"
    /\ ~Configured(last.service)
    /\ last.status.status = "not_configured"

\* C7: a reported failure adds exactly one to the credential's error count and
\* sets its cooldown to the duration of the reported class, whatever it was.
C7_FailureOverwritesCooldown ==
    [][(last'.op = "report_error" /\ last'.api_key \in PoolKeys(last'.service))
       => /\ error_counts'[last'.service][last'.api_key]
               = error_counts[last'.service][last'.api_key] + 1
          /\ cooldown_periods'[last'.service][last'.api_key]
               = DurationOf(last'.error_type)]_vars

\* C7 witness: a generic failure was reported on a credential that had failed
\* before, and its cooldown is the generic one.
C7_Witness ==
    /\ last.op = "report_error" /\ last.error_type = "generic"
    /\ last.api_key \in PoolKeys(last.service)
    /\ error_counts[last.service][last.api_key] >= 2
    /\ cooldown_periods[last.service][last.api_key] = 60

\* C8 as stated: the state is healthy, degraded or not_configured exactly as the
\* pool has a passing credential, has none, or is empty; the available count is
\* the number of passing credentials and the total is the pool size.
C8_StatusAsStated ==
    last.op = "get_service_status" =>
        /\ last.status.status = "healthy" <=> SomePasses(last.service)
        /\ last.status.status = "degraded"
             <=> (Configured(last.service) /\ ~SomePasses(last.service))
        /\ last.status.status = "not_configured" <=> ~Configured(last.service)
        /\ last.status.available_apis = PassCount(last.service)
        /\ last.status.total_apis = Cardinality(PoolKeys(last.service))

\* C8 amended: as stated, except that the total is the pool size for a configured
\* provider only; the status of a provider without credentials carries no total.
C8_Status ==
    last.op = "get_service_status" =>
        /\ last.status.status = "healthy" <=> SomePasses(last.service)
        /\ last.status.status = "degraded"
             <=> (Configured(last.service) /\ ~SomePasses(last.service))
        /\ last.status.status = "not_configured" <=> ~Configured(last.service)
        /\ last.status.available_apis = PassCount(last.service)
        /\ Configured(last.service)
             => last.status.total_apis = Cardinality(PoolKeys(last.service))
        /\ ~Configured(last.service) => last.status.total_apis = -1

\* C8 witness: a pool of two with exactly one passing credential was reported.
C8_Witness ==
    /\ last.op = "get_service_status" /\ Configured(last.service)
    /\ last.status.status = "healthy"
    /\ last.status.total_apis = 2
    /\ last.status.available_apis = 1

\* C9: a reset of one provider zeroes the error count and the cooldown of each
\* of its credentials and leaves those of every other provider as they were; a
\* reset without provider zeroes them all.
C9_ResetScope ==
    [][last'.op = "reset_errors"
       => \A service \in DOMAIN api_configs : \A k \in PoolKeys(service) :
            IF last'.service = None \/ last'.service = service
            THEN /\ error_counts'[service][k] = 0
                 /\ cooldown_periods'[service][k] = 0
            ELSE /\ error_counts'[service][k] = error_counts[service][k]
                 /\ cooldown_periods'[service][k] = cooldown_periods[service][k]]_vars

\* C9 witness: one provider was reset while a credential of another provider
\* keeps a counted error and a cooldown.
C9_Witness ==
    /\ last.op = "reset_errors" /\ last.service # None /\ Configured(last.service)
    /\ \E other \in DOMAIN api_configs \ {last.service} : \E k \in PoolKeys(other) :
         error_counts[other][k] > 0 /\ cooldown_periods[other][k] > 0

\* C10: when the provider call of a search returns, the error count of the
\* credential the search used is 0.
C10_SuccessClearsErrorCount ==
    [][\A r \in Requests :
         (calls[r].pc = "adapter" /\ calls'[r].outcome = "succeeded")
           => error_counts'[Providers[calls[r].provider]][calls[r].key] = 0]_vars


----------------------------------------------------------------------------
(* The aggregation call *)

Finished(r) == calls[r].pc = "done"

\* C11: when the three providers are configured and the call of the second
\* raises a rate-limit error while the other two return results, the report
\* has success true, holds entries for the first and the third only, and the
\* cooldown of the second provider's credential is 300 seconds.
C11_PartialFailure ==
    (Finished(1) /\ outcomes[1] = <<"returns", "raises_rate", "returns">>)
      => /\ calls[1].report.success = "true"
         /\ calls[1].report.api_search_results = {"exa", "serpapi"}
         /\ cooldown_periods["tavily"]["t1"] = RateLimitCooldown

C11_Witness ==
    /\ Finished(1)
    /\ outcomes[1] = <<"returns", "raises_rate", "returns">>
    /\ "tavily" \notin calls[1].report.api_search_results

\* The providers whose call, in the finished search of request r, did one of
\* the given things.
ProvidersWith(r, things) ==
    {Providers[i] : i \in {j \in DOMAIN outcomes[r] : outcomes[r][j] \in things}}

\* C12 as stated: a finished call reports success true and its result keys
\* are exactly the providers whose call succeeded.
C12_KeysAreSucceeded ==
    Finished(1) => /\ calls[1].report.success = "true"
                   /\ calls[1].report.api_search_results = ProvidersWith(1, Returning)

\* C12: a finished call reports success true and its result keys are exactly
\* the providers whose call returned at least one result; when no call did,
\* the results are empty.
C12_KeysAreNonEmptyResults ==
    Finished(1) => /\ calls[1].report.success = "true"
                   /\ calls[1].report.api_search_results = ProvidersWith(1, {"returns"})

C12_Witness ==
    /\ Finished(1)
    /\ outcomes[1] = <<"returns", "returns_empty", "raises_other">>
    /\ calls[1].report.api_search_results = {"exa"}

\* What the provider call searched last by request r did.
LastOutcome(r) == outcomes[r][Len(outcomes[r])]

\* The error type the taxonomy gives to a raised provider call.
TaxonomyType(outcome) ==
    CASE outcome = "raises_rate" -> "rate_limit"
      [] outcome = "raises_quota" -> "quota_exceeded"
      [] OTHER -> "generic"

\* C13: a provider call that raised is reported against the selected
\* credential with the type of the taxonomy (rate_limit for a text that holds
\* "rate", quota_exceeded for a quota signal, generic otherwise) and the
\* credential's cooldown is the one of that type (300, 3600, 60).
C13_FailureClassified ==
    (last.op = "report_error" /\ outcomes[1] # <<>> /\ LastOutcome(1) \in Raising)
      => /\ last.error_type = TaxonomyType(LastOutcome(1))
         /\ cooldown_periods[last.service][last.api_key]
              = cooldown_for(TaxonomyType(LastOutcome(1)))

\* C14: the search of a provider that has no credential invokes no provider
\* call, records no failure, leaves the state of the rotation manager as it
\* was, adds no key to the results, and is followed by the search of the next
\* provider, or by the report when it was the last one.
C14_EmptyPoolSkipped ==
    [][(/\ calls[1].pc = "select"
        /\ calls'[1] # calls[1]
        /\ ~Configured(Providers[calls[1].provider]))
         => /\ calls'[1].pc # "adapter"
            /\ last'.op # "report_error"
            /\ mgr' = mgr
            /\ calls'[1].results = calls[1].results
            /\ Providers[calls[1].provider] \notin calls'[1].results
            /\ IF calls[1].provider < Len(Providers)
               THEN calls'[1].pc = "select" /\ calls'[1].provider = calls[1].provider + 1
               ELSE Finished(1)' /\ calls'[1].report = consolidated(calls[1].results)]_vars

C14_Witness ==
    /\ Finished(1)
    /\ ~Configured("tavily")
    /\ outcomes[1] = <<"returns", "no_key", "returns">>
    /\ calls[1].report.api_search_results = {"exa", "serpapi"}

----------------------------------------------------------------------------
(* The collection of content *)

InCall == sailor.pc # "idle"

Accepted == sailor.file.text_content

\* C15: throughout a call and at its end, the sizes of the entries the call
\* has accepted add up to the collected content size, which is the size the
\* call reports, also when the file could not be written.
C15_Accounting ==
    InCall => /\ SumOf(Accepted) = sailor.total_content_size
              /\ sailor.file.content_size_bytes = sailor.total_content_size
              /\ sailor.pc = "done" => sailor.report.content_size = SumOf(Accepted)

\* C16: a call starts its collection with an accumulator of zero and an empty
\* list of entries, whatever the calls before it collected.
C16_SessionPerCall ==
    (sailor.pc = "loop" /\ sailor.url = 0)
      => sailor.total_content_size = 0 /\ Accepted = <<>>

\* Every page fetched so far by the first call of the process was accepted
\* and held a quarter of the target.
QuarterPages ==
    /\ InCall
    /\ sailor.rounds = 1
    /\ Len(Accepted) = sailor.saves
    /\ sailor.fetches = sailor.fetching + sailor.saves
    /\ \A i \in DOMAIN Accepted : 4 * Accepted[i] = TargetSize

\* C17: a call requests no page once its accumulator has reached the target,
\* and when every page contributes one accepted entry of a quarter of the
\* target the collection stops after the fourth page: no fifth page is
\* requested.
C17_BudgetStop ==
    [][/\ (sailor.total_content_size >= TargetSize /\ sailor'.rounds = sailor.rounds)
            => sailor'.fetches = sailor.fetches
       /\ QuarterPages' => sailor'.fetches <= 4]_vars

LoopOver == shadowed.pc \in {"save", "done"}

FetchEnds == sailor.pc = "gather" /\ sailor'.fetching = sailor.fetching - 1

\* C22: a request that fails leaves the accumulator and the entries as they
\* were, does not end the call, and the other tasks of its batch stay: those
\* in flight and those that have not started yet.
C22_ExtractionFailureSkipped ==
    [][(FetchEnds /\ sailor'.last_fetch = "failed")
         => /\ sailor'.total_content_size = sailor.total_content_size
            /\ sailor'.file = sailor.file
            /\ sailor'.pc = "gather"
            /\ sailor'.waiting = sailor.waiting
            /\ sailor'.report = sailor.report]_vars

C22_Witness ==
    /\ sailor.last_fetch = "failed"
    /\ Len(Accepted) >= 1
    /\ sailor.fetching >= 1
    /\ sailor.waiting >= 1

\* C23: a candidate is accepted if and only if its encoded size is above 100
\* bytes: what is accepted is above 100 bytes, what is rejected is not, a
\* candidate of 100 bytes is rejected, and a rejection leaves the accumulator
\* and the entries as they were.
C23_AcceptanceFloor ==
    [][FetchEnds
         => /\ sailor'.last_fetch = "accepted" <=> sailor'.last_size > 100
            /\ sailor'.last_fetch = "rejected"
                 => /\ sailor'.total_content_size = sailor.total_content_size
                    /\ sailor'.file = sailor.file]_vars

IsPrefix(short, long) ==
    /\ Len(short) <= Len(long)
    /\ \A i \in DOMAIN short : short[i] = long[i]

\* C24: within a call the entries are only appended: after every step the
\* list is the list before it, followed by at most one new entry, so the
\* entries stay in the order of their acceptance up to the end of the call.
C24_AppendOnly ==
    [][InCall => /\ IsPrefix(Accepted, Accepted')
                 /\ Len(Accepted') <= Len(Accepted) + 1]_vars

C24_Witness ==
    /\ sailor.pc = "done"
    /\ Accepted = <<300, 128000, 300>>

\* C28: the tasks of a gather, started or not, are never more than ten, so
\* at most ten requests are in flight, and outside a gather (in particular
\* when the next batch is formed) no task of an earlier batch is left.
C28_BatchOfTen ==
    /\ sailor.waiting + sailor.fetching <= BatchWidth
    /\ sailor.pc # "gather" => sailor.waiting = 0 /\ sailor.fetching = 0

C28_Witness ==
    /\ sailor.pc = "gather"
    /\ sailor.url = 2 * BatchWidth
    /\ sailor.fetching = BatchWidth

\* C29: a request in flight is never given up, not even when another one of
\* its batch has brought the size to the target: it ends by its own response
\* and the entry it saves is counted.  The size therefore grows only inside
\* a batch that was formed under the target, and by no more than the sizes
\* of the pages this batch accepted.
C29_BatchOvershoot ==
    /\ [](/\ sailor.total_content_size <= sailor.base + sailor.gain
          /\ sailor.gain > 0 => sailor.base < TargetSize)
    /\ [][(sailor.pc = "gather" /\ sailor.fetching > 0)
            => /\ sailor'.pc = "gather"
               /\ sailor'.fetching >= sailor.fetching - 1
               /\ (FetchEnds /\ Accepted' # Accepted)
                    => sailor'.total_content_size
                         = sailor.total_content_size + sailor'.last_size]_vars

C29_Witness ==
    /\ sailor.pc = "done"
    /\ sailor.base < TargetSize
    /\ sailor.base + sailor.gain > TargetSize
    /\ sailor.total_content_size = sailor.base + sailor.gain
    /\ sailor.total_content_size - sailor.last_size >= TargetSize
    /\ sailor.last_fetch = "accepted"

\* C30 as the specification has it: while the search of one provider is at
\* its provider call, the search of another one can begin.
C30_SearchesOverlap ==
    (calls[1].pc = "adapter" /\ calls[1].provider < Len(Providers))
        => ENABLED ReportSelects

\* The search of provider p begins with this step.
SearchBegins(p) ==
    /\ calls'[1].pc \in {"select", "adapter"}
    /\ calls'[1].provider = p
    /\ calls[1].pc \in {"idle", "done"} \/ calls[1].provider # p

\* The search of provider p ends with this step.
SearchEnds(p) ==
    /\ calls[1].pc \in {"select", "adapter"}
    /\ calls[1].provider = p
    /\ Len(outcomes'[1]) = p

\* C30: the three searches of a call follow each other in the order Exa,
\* Tavily, SerpAPI, each one beginning when the one before has ended; what
\* is kept for a provider depends on its own provider call only, and the end
\* of its search leaves what is kept for the others as it was.
C30_OneAfterAnother ==
    [][\A p \in DOMAIN Providers :
          /\ SearchBegins(p)
               => /\ Len(outcomes'[1]) = p - 1
                  /\ \A q \in p .. Len(Providers) :
                         Providers[q] \notin calls'[1].results
          /\ SearchEnds(p)
               => /\ calls'[1].results \ {Providers[p]}
                       = calls[1].results \ {Providers[p]}
                  /\ Providers[p] \in calls'[1].results
                       <=> outcomes'[1][p] = "returns"]_vars

C30_Witness ==
    /\ calls[1].pc = "done"
    /\ Len(outcomes[1]) = Len(Providers)
    /\ outcomes[1][1] = "returns"
    /\ outcomes[1][2] \in Raising
    /\ outcomes[1][3] = "returns"
    /\ calls[1].results = {"exa", "serpapi"}

\* C27: whatever the order in which the requests of a batch end, the end of
\* one of them either appends the entry and adds its size to the total in
\* the same step, or does neither.
C27_AtomicPerEntry ==
    [][FetchEnds
         => \/ /\ Accepted' = Append(Accepted, sailor'.last_size)
               /\ sailor'.total_content_size
                    = sailor.total_content_size + sailor'.last_size
            \/ /\ Accepted' = Accepted
               /\ sailor'.total_content_size = sailor.total_content_size]_vars

\* C25: a call that has returned reports the sizes it added itself, whatever
\* the calls of the other threads did meanwhile.
C25_CallsApart ==
    \A r \in Requests :
        threads[r].pc = "done" => threads[r].report.content_size = threads[r].own

\* C26: when every call of report_error has returned, the error count of the
\* credential is the number of these calls, and its cooldown is the one of
\* an error type as soon as there was a call.
C26_NoLostUpdate ==
    (\A r \in Requests : reporters[r].pc = "idle")
        => /\ error_counts["exa"][Reported]
                = SumOf([r \in Requests |-> reporters[r].done])
           /\ error_counts["exa"][Reported] > 0
                => cooldown_periods["exa"][Reported]
                     \in {cooldown_for(error_type) : error_type \in ErrorTypes}

\* C34: every selection on a configured provider moves its cursor one place
\* on, modulo the size of the pool, also when it returns the credential under
\* the cursor, and leaves the other cursors alone; no other call moves a
\* cursor.
C34_CursorAdvances ==
    [][/\ (Selected(last') /\ Configured(last'.service))
            => current_indices' =
                 [current_indices EXCEPT ![last'.service] =
                     (@ + 1) % Len(api_configs[last'.service])]
       /\ ~Selected(last') => current_indices' = current_indices]_vars

\* C36: the cursor of every configured provider is an index of its pool
\* before and after every step, and a selection whose scan finds no available credential
\* leaves the cursor where it was.
C36_CursorInPool ==
    [][/\ \A service \in DOMAIN api_configs :
            /\ current_indices[service] \in 0 .. (Len(api_configs[service]) - 1)
            /\ current_indices'[service] \in 0 .. (Len(api_configs[service]) - 1)
       /\ (Selected(last') /\ last'.path = "fallback")
            => current_indices' = current_indices]_vars

C36_Witness ==
    /\ Selected(last)
    /\ last.path = "fallback"
    /\ current_indices[last.service] = 1
    /\ Len(api_configs[last.service]) = 2

\* C37: with one aggregation call after the other, the error count of every
\* credential is at most 1 in every state, hence never over the threshold,
\* and a credential that fails the availability check is inside its cooldown.
C37_CountAtMostOne ==
    \A service \in DOMAIN api_configs :
        \A api_key \in PoolKeys(service) :
            /\ error_counts[service][api_key] <= 1
            /\ ~is_api_available(service, api_key)
                 => (now - last_used[service][api_key])
                       < cooldown_periods[service][api_key]

C37_Witness ==
    /\ Configured("exa") /\ Configured("tavily")
    /\ calls[1].pc = "adapter"
    /\ calls[1].provider = 1
    /\ error_counts["exa"]["e1"] = 0
    /\ cooldown_periods["exa"]["e1"] > 0
    /\ error_counts["tavily"]["t1"] = 1
    /\ ~is_api_available("tavily", "t1")

\* C38: only a failure report or a reset changes a cooldown duration, so the
\* duration set by a failure outlives every selection; a selection stamps the
\* credential it returns with the current second, and a credential with a
\* cooldown and no excess of errors passes the availability check exactly
\* when the duration has elapsed since that stamp.
C38_CooldownStays ==
    [][/\ last'.op \notin {"report_error", "reset_errors"}
            => cooldown_periods' = cooldown_periods
       /\ (Selected(last') /\ last'.ret \in PoolKeys(last'.service))
            => last_used'[last'.service][last'.ret] = now'
       /\ \A service \in DOMAIN api_configs :
            \A api_key \in PoolKeys(service) :
              (/\ cooldown_periods'[service][api_key] > 0
               /\ error_counts'[service][api_key] <= MaxConsecutiveErrors)
                => (is_api_available(service, api_key)'
                      <=> now' - last_used'[service][api_key]
                            >= cooldown_periods'[service][api_key])]_vars

C38_Witness ==
    /\ Selected(last)
    /\ last.service = "exa"
    /\ last.ret = "e1"
    /\ now > 0
    /\ last_used["exa"]["e1"] = now
    /\ error_counts["exa"]["e1"] = 0
    /\ cooldown_periods["exa"]["e1"] = QuotaCooldown
    /\ ~is_api_available("exa", "e1")

\* C39: a status query, on a configured provider or not, leaves the pools,
\* the cursors, the seconds of last use, the error counts and the cooldowns
\* as they were.
C39_StatusReadOnly ==
    [][last'.op = "get_service_status"
         => /\ api_configs' = api_configs
            /\ current_indices' = current_indices
            /\ last_used' = last_used
            /\ error_counts' = error_counts
            /\ cooldown_periods' = cooldown_periods]_vars

C39_Witness ==
    /\ last.op = "get_service_status"
    /\ Configured(last.service)
    /\ last.status.status = "degraded"
    /\ last.status.current_index = 1
    /\ \E api_key \in PoolKeys(last.service) : error_counts[last.service][api_key] > 0

\* Every credential of the pool passes the availability check and the status
\* of the service says so.
AllPass(service) ==
    /\ \A api_key \in PoolKeys(service) : is_api_available(service, api_key)
    /\ service_status(service).status = "healthy"
    /\ service_status(service).available_apis = service_status(service).total_apis
    /\ service_status(service).total_apis = Len(api_configs[service])

\* C40: right after construction every credential of every configured
\* provider passes the availability check, and so does every credential of
\* a provider right after its reset, which leaves the seconds of last use
\* and the cursors as they were; the status is then healthy with as many
\* available credentials as the pool has.
C40_FreshAfterReset ==
    [][/\ last.op = "init" => \A service \in DOMAIN api_configs : AllPass(service)
       /\ last'.op = "reset_errors"
            => /\ last_used' = last_used
               /\ current_indices' = current_indices
               /\ \A service \in reset_scope(last'.service) : AllPass(service)']_vars

C40_Witness ==
    /\ last.op = "reset_errors"
    /\ last.service = "exa"
    /\ Len(api_configs["exa"]) = 2
    /\ now > 0
    /\ last_used["exa"]["e2"] = now
    /\ current_indices["exa"] = 1
    /\ AllPass("exa")

\* The length of the longest list of results a page brings.
LongestBatch ==
    CHOOSE n \in 0 .. Cardinality(Batches) :
        /\ \E batch \in Batches : Len(batch) = n
        /\ \A batch \in Batches : Len(batch) <= n

\* C35: inside a call the page number never goes back and grows by one at a
\* time; the k-th request of the call is the one for page k, so no page is
\* requested twice; and the results of a page add at most one entry each.
C35_NoRetries ==
    [][shadowed.pc \in {"while", "search", "sleep"}
         => /\ shadowed'.page \in {shadowed.page, shadowed.page + 1}
            /\ shadowed'.requested \in {shadowed.requested, shadowed.requested + 1}
            /\ shadowed'.requested > shadowed.requested
                 => /\ shadowed'.requested = shadowed.page
                    /\ shadowed'.page = shadowed.page
            /\ Len(shadowed'.content_buffer)
                 <= Len(shadowed.content_buffer) + LongestBatch
            /\ shadowed'.page > shadowed.page
                 => shadowed.pc = "search" /\ shadowed.requested = shadowed.page]_vars

C35_Witness ==
    /\ shadowed.pc = "search"
    /\ shadowed.page = 3
    /\ shadowed.requested = 3
    /\ Len(shadowed.content_buffer) = 1

\* The step in which the route answers after its wait.
Answers == route.pc = "check" /\ route'.pc = "responded"

\* C31: when the route answers after its wait, a search thread that is still
\* running gets the timeout answer, whose code is the code of no answer for
\* bad input, for an internal error or for a finished search; a thread that
\* has ended gets the answer that carries its own report.
C31_TimeoutOutcome ==
    [][Answers
         => IF route.thread = "running"
            THEN /\ route'.response = timeout_response
                 /\ \A other \in {invalid_response("none"), failure_response("none"),
                                  complete_response(route.queue)} :
                        other.code # route'.response.code
            ELSE /\ route'.response.code = 200
                 /\ route.queue # NoResult
                 /\ route'.response.search_results = route.queue]_vars

C31_Witness ==
    /\ route.pc = "responded"
    /\ route.response = timeout_response
    /\ route.thread = "finished"
    /\ route.queue.api_search_results = {"exa", "tavily"}

\* C32: an answer that is not the timeout answer says success False only if
\* no search thread was started, hence before any provider or collection;
\* an answer built from a report says success True, also when the collection
\* failed and no provider brought a result.
C32_SuccessField ==
    route.pc = "responded"
        => /\ (route.response.success = "false" /\ route.response # timeout_response)
                => route.thread = "none"
           /\ route.response.code = 200
                => /\ route.response.success = "true"
                   /\ route.thread = "finished"

C32_Witness ==
    /\ route.pc = "responded"
    /\ route.response.code = 200
    /\ route.response.success = "true"
    /\ route.response.search_results.websailor_search = "false"
    /\ route.response.search_results.api_search_results = {}

\* C33: the tag on the results of a report shows fewer characters than the
\* key has, and the key cannot be read off the tag.
C33_TagHidesSecret ==
    (route.response.code = 200 /\ route.response.search_results.api_used # <<>>)
        => /\ ~IsPrefix(route.secret, route.response.search_results.api_used)
           /\ Len(route.response.search_results.api_used) - 3 < Len(route.secret)

============================================================================
